---- MODULE Spec2Model ----
(***************************************************************************)
(* Metabolic Command Center (src/app.js): the HealthDataManager (loading   *)
(* of the four partitions, metric index, time-series queries), the         *)
(* DOMContentLoaded bootstrap and the chart updates of DashboardUI.        *)
(*                                                                         *)
(* Spec follows a page load from the constructors on, the files drawn from *)
(* RecordPool.  SpecUI follows the dashboard after a successful load of    *)
(* files drawn from WindowRecords.                                         *)
(*                                                                         *)
(* JavaScript values are modelled as records [type, num, str] so that the  *)
(* code's truthiness tests (a || b, a && b) and parseFloat are computed as *)
(* the code computes them.  Dates are day numbers (UTC, one-day grain)     *)
(* with a validity flag for Invalid Date.                                  *)
(***************************************************************************)
EXTENDS Integers, Sequences, FiniteSets, TLC

(***************************************************************************)
(* Bounds of the model.                                                    *)
(***************************************************************************)
\* total number of records over the four partitions of a loaded dataset
MaxRecords == 2

\* number of updateChart calls that may be waiting on their timer at once
MaxPending == 2

(***************************************************************************)
(* JavaScript values.                                                      *)
(***************************************************************************)
Undef == [type |-> "undefined", num |-> 0, str |-> ""]

Num(n) == [type |-> "number", num |-> n, str |-> ""]

Str(s) == [type |-> "string", num |-> 0, str |-> s]

\* ToBoolean: undefined, 0 and "" are falsy
Truthy(v) ==
    \/ v.type = "number" /\ v.num # 0
    \/ v.type = "string" /\ v.str # ""

\* a || b
Or(a, b) == IF Truthy(a) THEN a ELSE b

\* floating-point results: a finite number, NaN or Infinity
Fin(n) == [k |-> "fin", n |-> n]

NaN == [k |-> "nan", n |-> 0]

Infinity == [k |-> "inf", n |-> 0]

\* parseFloat applied to the strings of the model's universe
StrToNumber(s) ==
    CASE s = "62" -> Fin(62)
      [] s = "Infinity" -> Infinity
      [] OTHER -> NaN

\* parseFloat(v): a number is converted to its string and parsed back
parseFloat(v) ==
    CASE v.type = "number" -> Fin(v.num)
      [] v.type = "string" -> StrToNumber(v.str)
      [] OTHER -> NaN

isNaN(y) == y.k = "nan"

\* String.prototype.toLowerCase on the metric names of the model's universe
toLowerCase(s) ==
    CASE s \in {"RestingHeartRate", "restingheartrate"} -> "restingheartrate"
      [] s \in {"Glucose", "glucose"} -> "glucose"
      [] OTHER -> s

(***************************************************************************)
(* Calendar and Date.                                                      *)
(***************************************************************************)
IsLeap(y) == (y % 4 = 0 /\ y % 100 # 0) \/ y % 400 = 0

DaysInYear(y) == IF IsLeap(y) THEN 366 ELSE 365

\* m0 is a month index 0..11, as Date.getMonth() gives it
DaysInMonth(y, m0) ==
    CASE m0 = 1 -> IF IsLeap(y) THEN 29 ELSE 28
      [] m0 \in {3, 5, 8, 10} -> 30
      [] OTHER -> 31

\* days from 1 January 2023, the origin of the model's day numbers, to 1 January y
RECURSIVE DaysBeforeYear(_)
DaysBeforeYear(y) ==
    IF y = 2023 THEN 0
    ELSE IF y > 2023 THEN DaysBeforeYear(y - 1) + DaysInYear(y - 1)
    ELSE DaysBeforeYear(y + 1) - DaysInYear(y)

RECURSIVE DaysBeforeMonth(_, _)
DaysBeforeMonth(y, m0) ==
    IF m0 = 0 THEN 0 ELSE DaysBeforeMonth(y, m0 - 1) + DaysInMonth(y, m0 - 1)

\* ECMAScript MakeDay(year, month, date): the month may lie outside 0..11
\* (it carries into the year) and the date may exceed the month's length
\* (it runs on into the following month)
MakeDay(y, m, d) ==
    LET ym == y + (m \div 12)
        mn == m % 12
    IN  DaysBeforeYear(ym) + DaysBeforeMonth(ym, mn) + (d - 1)

InvalidDate == [valid |-> FALSE, day |-> 0]

DateOf(y, m0, d) == [valid |-> TRUE, day |-> MakeDay(y, m0, d)]

\* the date-time strings of the model's universe and the calendar date each
\* denotes; any other string is not a date
ParseDate(s) ==
    CASE s = "2023-12-01T00:00:00Z" -> DateOf(2023, 11, 1)
      [] s = "2023-12-01T00:00:00.000Z" -> DateOf(2023, 11, 1)
      [] s = "2024-01-01T00:00:00Z" -> DateOf(2024, 0, 1)
      [] s = "2024-01-01T00:00:00.000Z" -> DateOf(2024, 0, 1)
      [] s = "2024-02-01T00:00:00Z" -> DateOf(2024, 1, 1)
      [] s = "2024-02-01T00:00:00.000Z" -> DateOf(2024, 1, 1)
      [] s = "2024-02-29T00:00:00Z" -> DateOf(2024, 1, 29)
      [] s = "2024-08-31T00:00:00Z" -> DateOf(2024, 7, 31)
      [] s = "2025-01-31T00:00:00Z" -> DateOf(2025, 0, 31)
      [] s = "2025-03-01T00:00:00Z" -> DateOf(2025, 2, 1)
      [] s = "2025-03-31T00:00:00Z" -> DateOf(2025, 2, 31)
      [] s = "2024-02-29T00:00:00.000Z" -> DateOf(2024, 1, 29)
      [] s = "2024-08-31T00:00:00.000Z" -> DateOf(2024, 7, 31)
      [] s = "2025-01-31T00:00:00.000Z" -> DateOf(2025, 0, 31)
      [] s = "2025-03-01T00:00:00.000Z" -> DateOf(2025, 2, 1)
      [] s = "2025-03-31T00:00:00.000Z" -> DateOf(2025, 2, 31)
      [] OTHER -> InvalidDate

\* new Date(time): a string is parsed, a number is milliseconds since 1970
\* (1 January 2023 is day 19358 of that count)
NewDate(v) ==
    CASE v.type = "string" -> ParseDate(v.str)
      [] v.type = "number" ->
            [valid |-> TRUE, day |-> (v.num \div 86400000) - 19358]
      [] OTHER -> InvalidDate

\* the strings Date.prototype.toISOString produces (YYYY-MM-DDTHH:mm:ss.sssZ)
ISOStrings ==
    {"2023-12-01T00:00:00.000Z", "2024-01-01T00:00:00.000Z",
     "2024-02-01T00:00:00.000Z", "2024-02-29T00:00:00.000Z",
     "2024-08-31T00:00:00.000Z", "2025-01-31T00:00:00.000Z",
     "2025-03-01T00:00:00.000Z", "2025-03-31T00:00:00.000Z"}

\* Date.prototype.toISOString of a valid date
toISOString(x) == CHOOSE s \in ISOStrings : ParseDate(s) = x

\* a.x - b.x on two dates: NaN as soon as one of them is invalid
DateDiff(a, b) == IF a.valid /\ b.valid THEN Fin(a.day - b.day) ELSE NaN

(***************************************************************************)
(* Raw records and the universe the loaded files are drawn from.           *)
(***************************************************************************)
\* a raw record that uses the lower-case field names only
Entry(metric, timestamp, value, unit, source_display) ==
    [metric |-> metric, Metric |-> Undef,
     timestamp |-> timestamp, Timestamp |-> Undef,
     value |-> value, Value |-> Undef,
     unit |-> unit, Unit |-> Undef,
     source_display |-> source_display, OriginalName |-> Undef]

\* a raw record that uses the capitalised field names only
EntryCap(metric, timestamp, value, unit, originalName) ==
    [metric |-> Undef, Metric |-> metric,
     timestamp |-> Undef, Timestamp |-> timestamp,
     value |-> Undef, Value |-> value,
     unit |-> Undef, Unit |-> unit,
     source_display |-> Undef, OriginalName |-> originalName]

RhrSixty ==
    Entry(Str("RestingHeartRate"), Str("2024-01-01T00:00:00Z"), Num(60),
          Str("bpm"), Str("Resting HR"))

\* same metric in another casing, same timestamp string, numeric string value
RhrSixtyTwo ==
    EntryCap(Str("restingheartrate"), Str("2024-01-01T00:00:00Z"), Str("62"),
             Str("count/min"), Undef)

\* a reading of zero
RhrZero ==
    Entry(Str("RestingHeartRate"), Str("2024-01-01T00:00:00Z"), Num(0),
          Undef, Undef)

RhrNotANumber ==
    Entry(Str("RestingHeartRate"), Str("2024-02-01T00:00:00Z"),
          Str("not-a-number"), Str("bpm"), Undef)

RhrBadTime ==
    Entry(Str("RestingHeartRate"), Str("garbage"), Num(70), Str("bpm"), Undef)

\* same instant as RhrSixty under another timestamp string, non-finite value
RhrInfinite ==
    Entry(Str("RestingHeartRate"), Str("2024-01-01T00:00:00.000Z"),
          Str("Infinity"), Str("bpm"), Undef)

GlucoseNegative ==
    EntryCap(Str("glucose"), Str("2023-12-01T00:00:00Z"), Num(-5),
             Str("mg/dL"), Str("Glucose"))

NoMetric ==
    Entry(Undef, Str("2024-02-01T00:00:00Z"), Num(80), Str("bpm"), Undef)

NumericMetric ==
    Entry(Num(5), Str("2024-01-01T00:00:00Z"), Num(1), Undef, Undef)

RecordPool ==
    {RhrSixty, RhrSixtyTwo, RhrZero, RhrNotANumber, RhrBadTime, RhrInfinite,
     GlucoseNegative, NoMetric, NumericMetric}

\* the metric names the presentation layer queries: ids of pulse cards
QueryNames == {"RestingHeartRate", "glucose"}

\* Object.values(this.data): the partitions in their insertion order
Partitions == <<"labs", "vitals", "activity", "sleep">>

EmptyData == [k \in {"labs", "vitals", "activity", "sleep"} |-> <<>>]

TotalRecords(d) ==
    Len(d.labs) + Len(d.vitals) + Len(d.activity) + Len(d.sleep)

\* the arrays a file of at most n records can parse to
Files(n) == UNION {[1..k -> RecordPool] : k \in 0..n}

(***************************************************************************)
(* HealthDataManager.indexMetrics                                          *)
(***************************************************************************)
Tag(dataset, source) ==
    [i \in 1..Len(dataset) |-> [entry |-> dataset[i], source |-> source]]

\* the records in the order of the two nested forEach loops, each with the
\* source tag its partition gives it
TaggedEntries(d) ==
    Tag(d.labs, "Labs") \o Tag(d.vitals, "Vitals")
        \o Tag(d.activity, "Activity") \o Tag(d.sleep, "Sleep")

AllEntries(d) == d.labs \o d.vitals \o d.activity \o d.sleep

\* entry.metric || entry.Metric
RawMetric(e) == Or(e.metric, e.Metric)

\* calling toLowerCase on a truthy value that is no string is a TypeError
MetricThrows(e) == Truthy(RawMetric(e)) /\ RawMetric(e).type # "string"

\* (rawMetric || '').toLowerCase()
MetricKey(e) ==
    IF Truthy(RawMetric(e)) THEN toLowerCase(RawMetric(e).str) ELSE ""

Descriptor(t) ==
    [name |-> MetricKey(t.entry),
     label |-> Or(Or(t.entry.source_display, t.entry.OriginalName),
                  RawMetric(t.entry)),
     unit |-> Or(Or(t.entry.unit, t.entry.Unit), Str("")),
     source |-> t.source]

\* KeepDescriptor with last-write-wins: a later record of a known key takes over
KeepDescriptorLastWins(acc, t) ==
    IF MetricKey(t.entry) = "" THEN acc
    ELSE SelectSeq(acc, LAMBDA m : m.name # MetricKey(t.entry))
             \o <<Descriptor(t)>>

\* one step of the loop body: the first record of a key makes its descriptor
KeepDescriptor(acc, t) ==
    IF MetricKey(t.entry) # ""
       /\ ~ \E i \in 1..Len(acc) : acc[i].name = MetricKey(t.entry)
    THEN Append(acc, Descriptor(t))
    ELSE acc

\* metricMap.values(): the descriptors in the order their keys were first set
RECURSIVE MetricMapValues(_, _)
MetricMapValues(tagged, acc) ==
    IF tagged = <<>> THEN acc
    ELSE MetricMapValues(Tail(tagged), KeepDescriptor(acc, Head(tagged)))

\* a.label.localeCompare(b.label) through the collation rank of the labels of
\* the model's universe (case ignored at the first level, lower case first)
LocaleRank(label) ==
    CASE label.str = "glucose" -> 1
      [] label.str = "Glucose" -> 2
      [] label.str = "Resting HR" -> 3
      [] label.str = "restingheartrate" -> 4
      [] label.str = "RestingHeartRate" -> 5
      [] OTHER -> 6

localeCompare(a, b) == LocaleRank(a) - LocaleRank(b)

\* Array.prototype.sort with the label comparator: a stable insertion
RECURSIVE InsertByLabel(_, _)
InsertByLabel(sorted, m) ==
    IF sorted = <<>> THEN <<m>>
    ELSE IF localeCompare(m.label, sorted[Len(sorted)].label) >= 0
         THEN Append(sorted, m)
         ELSE Append(InsertByLabel(SubSeq(sorted, 1, Len(sorted) - 1), m),
                     sorted[Len(sorted)])

RECURSIVE SortByLabel(_)
SortByLabel(ms) ==
    IF ms = <<>> THEN <<>>
    ELSE InsertByLabel(SortByLabel(SubSeq(ms, 1, Len(ms) - 1)), ms[Len(ms)])

\* indexMetrics(): raised when the loop throws, else the new this.metrics
indexMetrics(d) ==
    IF \E i \in 1..Len(AllEntries(d)) : MetricThrows(AllEntries(d)[i])
    THEN [raised |-> TRUE, metrics |-> <<>>]
    ELSE [raised |-> FALSE,
          metrics |-> SortByLabel(MetricMapValues(TaggedEntries(d), <<>>))]

(***************************************************************************)
(* HealthDataManager.getMetricData                                         *)
(***************************************************************************)
\* Matches without the test of m: a record without a metric field matches
\* every name
MatchesOrMissing(e, metricName) ==
    \/ ~ Truthy(RawMetric(e))
    \/ toLowerCase(RawMetric(e).str) = toLowerCase(metricName)

\* the filter callback: m && m.toLowerCase() === metricName.toLowerCase()
Matches(e, metricName) ==
    /\ Truthy(RawMetric(e))
    /\ toLowerCase(RawMetric(e).str) = toLowerCase(metricName)

\* Map.prototype.set: a known key keeps its place and takes the new value
MapSet(entries, time, value) ==
    IF \E i \in 1..Len(entries) : entries[i].time = time
    THEN [i \in 1..Len(entries) |->
             IF entries[i].time = time
             THEN [time |-> time, value |-> value]
             ELSE entries[i]]
    ELSE Append(entries, [time |-> time, value |-> value])

\* the forEach that fills uniqueByTime
RECURSIVE UniqueByTime(_, _)
UniqueByTime(matched, entries) ==
    IF matched = <<>> THEN entries
    ELSE LET dd == Head(matched)
             timeStr == Or(dd.timestamp, dd.Timestamp)
             val == Or(dd.value, dd.Value)
         IN  UniqueByTime(Tail(matched),
                 IF Truthy(timeStr) /\ val # Undef
                 THEN MapSet(entries, timeStr, parseFloat(val))
                 ELSE entries)

\* .map(([time, value]) => ({x: new Date(time), y: value})); the point keeps
\* the Map key it was built from in the field time, for reference only
ToPoints(entries) ==
    [i \in 1..Len(entries) |->
        [time |-> entries[i].time, x |-> NewDate(entries[i].time),
         y |-> entries[i].value]]

\* .filter(d => !isNaN(d.y))
KeepPoint(p) == ~ isNaN(p.y)

RECURSIVE InsertByX(_, _)
InsertByX(sorted, p) ==
    IF sorted = <<>> THEN <<p>>
    ELSE IF DateDiff(p.x, sorted[Len(sorted)].x).n >= 0
         THEN Append(sorted, p)
         ELSE Append(InsertByX(SubSeq(sorted, 1, Len(sorted) - 1), p),
                     sorted[Len(sorted)])

RECURSIVE StableSortByX(_)
StableSortByX(ps) ==
    IF ps = <<>> THEN <<>>
    ELSE InsertByX(StableSortByX(SubSeq(ps, 1, Len(ps) - 1)), ps[Len(ps)])

Rearrangements(ps) ==
    {[i \in 1..Len(ps) |-> ps[f[i]]] :
        f \in {g \in [1..Len(ps) -> 1..Len(ps)] :
                  \A i, j \in 1..Len(ps) : g[i] = g[j] => i = j}}

\* .sort((a, b) => a.x - b.x).  With valid dates only the comparator is
\* consistent and the (stable) sort has one result.  With an invalid date
\* among two or more points the comparator returns NaN, it is no longer a
\* consistent comparator and the order of the result is implementation-defined
\* (ECMA-262, Array.prototype.sort): any permutation.
SortByX(ps) ==
    IF \A i \in 1..Len(ps) : ps[i].x.valid
    THEN {StableSortByX(ps)}
    ELSE Rearrangements(ps)

\* getMetricData(metricName): the set of possible outcomes, each either a
\* raised exception or the returned series
getMetricData(d, metricName) ==
    IF \E i \in 1..Len(AllEntries(d)) : MetricThrows(AllEntries(d)[i])
    THEN {[raised |-> TRUE, series |-> <<>>]}
    ELSE LET allEntries ==
                 SelectSeq(AllEntries(d), LAMBDA e : Matches(e, metricName))
             points == ToPoints(UniqueByTime(allEntries, <<>>))
         IN  {[raised |-> FALSE, series |-> s] :
                 s \in SortByX(SelectSeq(points, KeepPoint))}

(***************************************************************************)
(* HealthDataManager.getLatestValue                                        *)
(***************************************************************************)
NoLatest ==
    [absent |-> TRUE, timestamp |-> "", value |-> NaN, metric |-> "",
     unit |-> Str("")]

\* this.metrics.find(m => m.name.toLowerCase() === metricName.toLowerCase())?.unit || ''
UnitOf(metrics, metricName) ==
    LET hits == {i \in 1..Len(metrics) :
                    toLowerCase(metrics[i].name) = toLowerCase(metricName)}
    IN  IF hits = {} THEN Str("")
        ELSE LET first == CHOOSE i \in hits : \A j \in hits : i <= j
             IN  Or(metrics[first].unit, Str(""))

\* what getLatestValue makes of one outcome of getMetricData
LatestOf(metrics, metricName, got) ==
    IF got.raised THEN [raised |-> TRUE, latest |-> NoLatest]
    ELSE IF Len(got.series) = 0 THEN [raised |-> FALSE, latest |-> NoLatest]
    ELSE LET latest == got.series[Len(got.series)]
         IN  IF ~ latest.x.valid
             THEN \* toISOString of an invalid date is a RangeError
                  [raised |-> TRUE, latest |-> NoLatest]
             ELSE [raised |-> FALSE,
                   latest |-> [absent |-> FALSE,
                               timestamp |-> toISOString(latest.x),
                               value |-> latest.y,
                               metric |-> metricName,
                               unit |-> UnitOf(metrics, metricName)]]

getLatestValue(d, metrics, metricName) ==
    {LatestOf(metrics, metricName, got) : got \in getMetricData(d, metricName)}

(***************************************************************************)
(* State.                                                                  *)
(***************************************************************************)
VARIABLES
    data,              \* manager.data: partition name -> array of raw records
    metrics,           \* manager.metrics: the Metric Index
    currentMetric,     \* manager.currentMetric
    currentTimeRange,  \* manager.currentTimeRange
    pc,                \* init(): 1..4 the partition to load next, 5 returned
    success,           \* what init() returned: "pending", "true" or "false"
    uiBuilt,           \* TRUE once the bootstrap has constructed DashboardUI
    syncStatus,        \* text of #sync-status as set by the bootstrap
    pending,           \* updateChart calls waiting on their 300 ms timer
    chartData,         \* chart.data.datasets[0].data
    now,               \* the clock: the calendar date new Date() gives
    result             \* outcome of the last query of the presentation layer

vars ==
    <<data, metrics, currentMetric, currentTimeRange, pc, success, uiBuilt,
      syncStatus, pending, chartData, now, result>>

managerVars == <<data, metrics, pc, success>>

uiVars == <<currentMetric, currentTimeRange, pending, chartData, now>>

NoResult ==
    [op |-> "none", name |-> "", range |-> "", raised |-> FALSE,
     series |-> <<>>, latest |-> NoLatest]

\* the ids of the six cards of renderVitalPulse
PulseIds ==
    {"RestingHeartRate", "VO2Max", "HRV", "glucose", "StepCount", "SleepScore"}

\* the state the constructors leave, before the bootstrap calls init()
Init ==
    /\ data = EmptyData
    /\ metrics = <<>>
    /\ currentMetric = "RestingHeartRate"
    /\ currentTimeRange = "1M"
    /\ pc = 1
    /\ success = "pending"
    /\ uiBuilt = FALSE
    /\ syncStatus = ""
    /\ pending = <<>>
    /\ chartData = <<>>
    /\ now = [y |-> 2025, m0 |-> 0, d |-> 15]
    /\ result = NoResult

(***************************************************************************)
(* HealthDataManager.init and the DOMContentLoaded bootstrap.              *)
(***************************************************************************)
\* one pass of the loop for labs, vitals or activity: fetch and parse succeed
LoadPartition ==
    /\ success = "pending"
    /\ pc \in 1..3
    /\ \E file \in Files(MaxRecords - TotalRecords(data)) :
           data' = [data EXCEPT ![Partitions[pc]] = file]
    /\ pc' = pc + 1
    /\ UNCHANGED <<metrics, success, uiBuilt, syncStatus, result>>
    /\ UNCHANGED uiVars

\* fetch rejects or response.json() fails for the partition being loaded:
\* the catch block returns false
LoadFails ==
    /\ success = "pending"
    /\ pc \in 1..4
    /\ success' = "false"
    /\ pc' = 5
    /\ UNCHANGED <<data, metrics, uiBuilt, syncStatus, result>>
    /\ UNCHANGED uiVars

\* the last pass of the loop (sleep), then indexMetrics() and return true in
\* the same turn; an exception of indexMetrics lands in the catch block
LoadLastAndIndex ==
    /\ success = "pending"
    /\ pc = 4
    /\ \E file \in Files(MaxRecords - TotalRecords(data)) :
           /\ data' = [data EXCEPT ![Partitions[pc]] = file]
           /\ IF indexMetrics(data').raised
              THEN metrics' = metrics /\ success' = "false"
              ELSE metrics' = indexMetrics(data').metrics /\ success' = "true"
    /\ pc' = 5
    /\ UNCHANGED <<uiBuilt, syncStatus, result>>
    /\ UNCHANGED uiVars

\* renderVitalPulse asks getLatestValue for each card; an exception there ends
\* ui.init() before it reaches updateChart
PulseCanRaise(d, ms) ==
    \E id \in PulseIds : \E o \in getLatestValue(d, ms, id) : o.raised

PulseCanFinish(d, ms) ==
    \A id \in PulseIds : \E o \in getLatestValue(d, ms, id) : ~ o.raised

\* the continuation of `await manager.init()` in the DOMContentLoaded handler
Bootstrap ==
    /\ pc = 5
    /\ syncStatus = ""
    /\ IF success = "true"
       THEN /\ uiBuilt' = TRUE
            /\ syncStatus' = "Online"
            /\ \/ PulseCanFinish(data, metrics)
                  /\ pending' = Append(pending, currentMetric)
               \/ PulseCanRaise(data, metrics) /\ pending' = pending
       ELSE /\ uiBuilt' = uiBuilt
            /\ syncStatus' = "Error"
            /\ pending' = pending
    /\ UNCHANGED <<currentMetric, currentTimeRange, chartData, now, result>>
    /\ UNCHANGED managerVars

(***************************************************************************)
(* The two query operations, as the presentation layer calls them.         *)
(***************************************************************************)
GetMetricData ==
    /\ uiBuilt
    /\ \E name \in QueryNames : \E got \in getMetricData(data, name) :
           result' = [op |-> "getMetricData", name |-> name, range |-> "",
                      raised |-> got.raised, series |-> got.series,
                      latest |-> NoLatest]
    /\ UNCHANGED <<uiBuilt, syncStatus>>
    /\ UNCHANGED managerVars
    /\ UNCHANGED uiVars

GetLatestValue ==
    /\ uiBuilt
    /\ \E name \in QueryNames : \E got \in getLatestValue(data, metrics, name) :
           result' = [op |-> "getLatestValue", name |-> name, range |-> "",
                      raised |-> got.raised, series |-> <<>>,
                      latest |-> got.latest]
    /\ UNCHANGED <<uiBuilt, syncStatus>>
    /\ UNCHANGED managerVars
    /\ UNCHANGED uiVars

Next ==
    \/ LoadPartition
    \/ LoadFails
    \/ LoadLastAndIndex
    \/ Bootstrap
    \/ GetMetricData
    \/ GetLatestValue

Spec == Init /\ [][Next]_vars

(***************************************************************************)
(* Vocabulary of the properties: a record's fields as the file format      *)
(* defines them (either capitalisation), read without the code's || .      *)
(***************************************************************************)
MetricField(e) == IF e.metric # Undef THEN e.metric ELSE e.Metric

TimeField(e) == IF e.timestamp # Undef THEN e.timestamp ELSE e.Timestamp

ValueField(e) == IF e.value # Undef THEN e.value ELSE e.Value

\* the record names the metric, whatever the casing
Carries(e, name) ==
    /\ MetricField(e).type = "string"
    /\ MetricField(e).str # ""
    /\ toLowerCase(MetricField(e).str) = toLowerCase(name)

\* positions, in the order labs, vitals, activity, sleep, of the records
\* that carry the metric name
Carriers(d, name) ==
    {i \in 1..Len(AllEntries(d)) : Carries(AllEntries(d)[i], name)}

\* positions of the carriers of name whose timestamp field is t
CarriersAt(d, name, t) ==
    {i \in Carriers(d, name) : TimeField(AllEntries(d)[i]) = t}

Last(S) == CHOOSE i \in S : \A j \in S : j <= i

First(S) == CHOOSE i \in S : \A j \in S : i <= j

\* the value field is a finite number, given as number or as numeric string
FiniteValue(e) ==
    ValueField(e).type \in {"number", "string"}
        /\ parseFloat(ValueField(e)).k = "fin"

UsableTime(e) ==
    TimeField(e).type = "string" /\ TimeField(e).str # ""
        /\ ParseDate(TimeField(e).str).valid

\* C1: every series getMetricData returns is non-decreasing in timestamp and
\* has at most one point per distinct raw timestamp string of the records
\* that carry the queried metric.
C1_SeriesSortedAndUnique ==
    (result.op = "getMetricData" /\ ~ result.raised) =>
        /\ \A i, j \in 1..Len(result.series) :
               i < j => /\ result.series[i].x.valid
                        /\ result.series[j].x.valid
                        /\ result.series[i].x.day <= result.series[j].x.day
        /\ Len(result.series) <=
               Cardinality({TimeField(AllEntries(data)[i]) :
                               i \in Carriers(data, result.name)})

\* C2: last-write-wins: the value a series reports at a raw timestamp string
\* is the value of the last record, in the order labs, vitals, activity, sleep
\* and record order inside a partition, that carries the metric and that
\* timestamp string.
C2_LastWriteWins ==
    (result.op = "getMetricData" /\ ~ result.raised) =>
        \A i \in 1..Len(result.series) :
            LET at == CarriersAt(data, result.name, result.series[i].time)
            IN  /\ at # {}
                /\ result.series[i].y =
                       parseFloat(ValueField(AllEntries(data)[Last(at)]))

\* C3: after indexing, the Metric Index holds exactly one descriptor per
\* distinct lower-cased non-empty metric name of the four partitions, and
\* its label, unit and source are those of the first record carrying the
\* name in the order labs, vitals, activity, sleep.
C3_IndexFirstWriteWins ==
    success = "true" =>
        LET all == TaggedEntries(data)
            keys == {MetricKey(all[i].entry) : i \in 1..Len(all)} \ {""}
        IN  /\ \A k \in keys :
                   Cardinality({i \in 1..Len(metrics) : metrics[i].name = k}) = 1
            /\ \A i \in 1..Len(metrics) :
                   /\ metrics[i].name \in keys
                   /\ LET first == First({j \in 1..Len(all) :
                                  MetricKey(all[j].entry) = metrics[i].name})
                          e == all[first].entry
                      IN  /\ metrics[i].label =
                                 (IF Truthy(e.source_display) THEN e.source_display
                                  ELSE IF Truthy(e.OriginalName) THEN e.OriginalName
                                  ELSE MetricField(e))
                          /\ metrics[i].unit =
                                 (IF Truthy(e.unit) THEN e.unit
                                  ELSE IF Truthy(e.Unit) THEN e.Unit
                                  ELSE Str(""))
                          /\ metrics[i].source = all[first].source

\* the index was built from a dataset in which a metric name occurs in two
\* partitions, under records whose label, unit and source all differ
C3_Witness ==
    /\ success = "true"
    /\ \E i, j \in 1..Len(TaggedEntries(data)) :
           LET a == TaggedEntries(data)[i]
               b == TaggedEntries(data)[j]
           IN  /\ i < j
               /\ MetricKey(a.entry) # ""
               /\ MetricKey(a.entry) = MetricKey(b.entry)
               /\ a.source # b.source
               /\ Descriptor(a).label # Descriptor(b).label
               /\ Descriptor(a).unit # Descriptor(b).unit

\* the unit of the index descriptor whose name matches, "" without one
IndexedUnit(name) ==
    IF \E i \in 1..Len(metrics) : toLowerCase(metrics[i].name) = toLowerCase(name)
    THEN LET i == CHOOSE i \in 1..Len(metrics) :
                      toLowerCase(metrics[i].name) = toLowerCase(name)
         IN  metrics[i].unit
    ELSE Str("")

\* C4: getLatestValue reports absent exactly when the series of the same name
\* is empty; otherwise it reports the chronologically last point of that
\* series with the queried metric name and the unit of the matching index
\* descriptor ("" without one).
C4_LatestIsLastPoint ==
    result.op = "getLatestValue" =>
        /\ ~ result.raised
        /\ result.latest.absent <=>
               \A o \in getMetricData(data, result.name) : o.series = <<>>
        /\ ~ result.latest.absent =>
               /\ \E o \in getMetricData(data, result.name) :
                  \E i \in 1..Len(o.series) :
                      /\ o.series[i].x.valid
                      /\ result.latest.timestamp = toISOString(o.series[i].x)
                      /\ result.latest.value = o.series[i].y
                      /\ \A j \in 1..Len(o.series) :
                             /\ o.series[j].x.valid
                             /\ o.series[j].x.day <= o.series[i].x.day
               /\ result.latest.metric = result.name
               /\ result.latest.unit = IndexedUnit(result.name)

\* C5: getMetricData and getLatestValue are total: neither ever raises.
C5_QueriesNeverRaise == ~ result.raised

\* C6: no point of a returned series has an invalid timestamp or a value that
\* is not a finite number.
C6_NoDefectivePoints ==
    result.op = "getMetricData" =>
        \A i \in 1..Len(result.series) :
            result.series[i].x.valid /\ result.series[i].y.k = "fin"

\* C7: init is all-or-nothing: it returns true only with the index built from
\* the loaded partitions; when it returns false the manager holds no
\* partition, the index is empty and the dashboard UI is never constructed.
C7_InitAllOrNothing ==
    /\ success = "true" =>
           pc = 5 /\ ~ indexMetrics(data).raised
               /\ metrics = indexMetrics(data).metrics
    /\ success = "false" =>
           data = EmptyData /\ metrics = <<>> /\ ~ uiBuilt
    /\ uiBuilt => success = "true"

\* C9, as stated: a record without a metric field is left out of the index
\* but not out of the time-series queries: when it has a usable timestamp and
\* a finite value, some query returns a point made from it.
C9_MetricLessQueryable ==
    uiBuilt =>
        \A i \in 1..Len(AllEntries(data)) :
            LET e == AllEntries(data)[i]
            IN  (MetricField(e) = Undef /\ UsableTime(e) /\ FiniteValue(e)) =>
                    /\ \A k \in 1..Len(metrics) : metrics[k].name # ""
                    /\ \E name \in QueryNames :
                       \E o \in getMetricData(data, name) :
                       \E k \in 1..Len(o.series) :
                           /\ o.series[k].time = TimeField(e)
                           /\ o.series[k].y = parseFloat(ValueField(e))

\* C9, amended: records without a metric field are left out of the index and
\* of the queries alike: every point of a series comes from a record that
\* carries the queried name, and whenever getLatestValue reports a value the
\* index holds the descriptor of that name.
C9_QueriedMetricIsIndexed ==
    /\ (result.op = "getMetricData" /\ ~ result.raised) =>
           \A i \in 1..Len(result.series) :
               CarriersAt(data, result.name, result.series[i].time) # {}
    /\ (result.op = "getLatestValue" /\ ~ result.raised
            /\ ~ result.latest.absent) =>
           /\ Carriers(data, result.name) # {}
           /\ \E k \in 1..Len(metrics) :
                  metrics[k].name = toLowerCase(result.name)

\* getLatestValue reported a value from a dataset that also holds a record
\* without a metric field, with a usable timestamp and a finite value
C9_Witness ==
    /\ result.op = "getLatestValue"
    /\ ~ result.raised
    /\ ~ result.latest.absent
    /\ \E i \in 1..Len(AllEntries(data)) :
           LET e == AllEntries(data)[i]
           IN  MetricField(e) = Undef /\ UsableTime(e) /\ FiniteValue(e)

\* C10: only defective records are dropped: a record that carries the queried
\* metric, with a non-empty parseable timestamp shared with no other such
\* record and a finite value (0 and negative numbers included, number or
\* numeric string), yields exactly one point, carrying that value.
C10_ValidRecordYieldsPoint ==
    (result.op = "getMetricData" /\ ~ result.raised) =>
        \A i \in Carriers(data, result.name) :
            LET e == AllEntries(data)[i]
            IN  (/\ UsableTime(e)
                 /\ FiniteValue(e)
                 /\ CarriersAt(data, result.name, TimeField(e)) = {i}) =>
                    /\ Cardinality({k \in 1..Len(result.series) :
                           result.series[k].time = TimeField(e)}) = 1
                    /\ \E k \in 1..Len(result.series) :
                           /\ result.series[k].time = TimeField(e)
                           /\ result.series[k].y = parseFloat(ValueField(e))

(***************************************************************************)
(* DashboardUI: metric selection, time-range toggles and updateChart.      *)
(***************************************************************************)
\* the data-range tags of the .time-toggle buttons
Ranges == {"1M", "6M", "1Y", "ALL"}

\* currentTimeRange === '1M' ? 1 : (currentTimeRange === '6M' ? 6 : 12)
MonthsOf(range) == IF range = "1M" THEN 1 ELSE IF range = "6M" THEN 6 ELSE 12

\* cutoff = new Date(); cutoff.setMonth(now.getMonth() - months): setMonth
\* keeps the year and the day of the month and hands them to MakeDay
Cutoff(t, months) == MakeDay(t.y, t.m0 - months, t.d)

\* the time-range filter of updateChart; d.x >= cutoff is false for an
\* invalid date
FilterRange(series, range, t) ==
    IF range # "ALL"
    THEN SelectSeq(series,
             LAMBDA p : p.x.valid /\ p.x.day >= Cutoff(t, MonthsOf(range)))
    ELSE series

\* the dates the clock is drawn from
NowSet ==
    {[y |-> 2025, m0 |-> 0, d |-> 15], [y |-> 2025, m0 |-> 2, d |-> 31]}

NotBefore(t, u) == MakeDay(t.y, t.m0, t.d) >= MakeDay(u.y, u.m0, u.d)

Rhr(timestamp, value) ==
    Entry(Str("RestingHeartRate"), Str(timestamp), Num(value), Str("bpm"),
          Str("Resting HR"))

\* resting heart rate readings 13, 7 and 2 months before 31 March 2025, on
\* 1 March 2025 and on 31 March 2025
WindowRecords ==
    <<Rhr("2024-02-29T00:00:00Z", 61), Rhr("2024-08-31T00:00:00Z", 62),
      Rhr("2025-01-31T00:00:00Z", 63), Rhr("2025-03-01T00:00:00Z", 64),
      Rhr("2025-03-31T00:00:00Z", 65)>>

\* the vitals files of the dashboard runs: runs of consecutive readings
WindowFiles ==
    {SubSeq(WindowRecords, i, j) : i \in 1..3, j \in 3..Len(WindowRecords)}

\* the cards of renderVitalPulse that are clicked
ClickedCards == {"RestingHeartRate", "HRV"}

\* the state the bootstrap leaves after a successful init(): the four files
\* loaded and indexed, the UI constructed, the first updateChart waiting
InitUI ==
    /\ \E file \in WindowFiles :
           data = [EmptyData EXCEPT !.labs = <<GlucoseNegative>>,
                                    !.vitals = file]
    /\ metrics = indexMetrics(data).metrics
    /\ currentMetric = "RestingHeartRate"
    /\ currentTimeRange = "1M"
    /\ pc = 5
    /\ success = "true"
    /\ uiBuilt = TRUE
    /\ syncStatus = "Online"
    /\ pending = <<currentMetric>>
    /\ chartData = <<>>
    /\ now \in NowSet
    /\ result = NoResult

\* the change handler of the dropdown and the click handler of a search
\* result: both offer the names of the index
SelectIndexedMetric ==
    /\ uiBuilt
    /\ Len(pending) < MaxPending
    /\ \E i \in 1..Len(metrics) :
           /\ currentMetric' = metrics[i].name
           /\ pending' = Append(pending, metrics[i].name)
    /\ UNCHANGED <<currentTimeRange, chartData, now, result, uiBuilt, syncStatus>>
    /\ UNCHANGED managerVars

\* card.onclick of a pulse card
ClickPulseCard ==
    /\ uiBuilt
    /\ Len(pending) < MaxPending
    /\ \E id \in ClickedCards :
           /\ currentMetric' = id
           /\ pending' = Append(pending, id)
    /\ UNCHANGED <<currentTimeRange, chartData, now, result, uiBuilt, syncStatus>>
    /\ UNCHANGED managerVars

\* the click handler of a .time-toggle button
ToggleTimeRange ==
    /\ uiBuilt
    /\ Len(pending) < MaxPending
    /\ \E range \in Ranges : currentTimeRange' = range
    /\ pending' = Append(pending, currentMetric)
    /\ UNCHANGED <<currentMetric, chartData, now, result, uiBuilt, syncStatus>>
    /\ UNCHANGED managerVars

\* updateChart resuming with the call made last first, as timers of unequal
\* delays would let it
UpdateChartResumesLastFirst ==
    /\ pending # <<>>
    /\ \E t \in NowSet :
       \E got \in getMetricData(data, pending[Len(pending)]) :
           /\ NotBefore(t, now)
           /\ now' = t
           /\ chartData' =
                  IF got.raised THEN chartData
                  ELSE FilterRange(got.series, currentTimeRange, t)
           /\ result' = [op |-> "updateChart", name |-> pending[Len(pending)],
                         range |-> currentTimeRange, raised |-> got.raised,
                         series |-> got.series, latest |-> NoLatest]
    /\ pending' = SubSeq(pending, 1, Len(pending) - 1)
    /\ UNCHANGED <<currentMetric, currentTimeRange, uiBuilt, syncStatus>>
    /\ UNCHANGED managerVars

\* the part of updateChart after its 300 ms timer: the timers all wait the
\* same delay, so the calls resume in the order they were made
UpdateChartResumes ==
    /\ pending # <<>>
    /\ \E t \in NowSet : \E got \in getMetricData(data, Head(pending)) :
           /\ NotBefore(t, now)
           /\ now' = t
           /\ chartData' =
                  IF got.raised THEN chartData
                  ELSE FilterRange(got.series, currentTimeRange, t)
           /\ result' = [op |-> "updateChart", name |-> Head(pending),
                         range |-> currentTimeRange, raised |-> got.raised,
                         series |-> got.series, latest |-> NoLatest]
    /\ pending' = Tail(pending)
    /\ UNCHANGED <<currentMetric, currentTimeRange, uiBuilt, syncStatus>>
    /\ UNCHANGED managerVars

NextUI ==
    \/ SelectIndexedMetric
    \/ ClickPulseCard
    \/ ToggleTimeRange
    \/ UpdateChartResumes

SpecUI == InitUI /\ [][NextUI]_vars

\* now minus a number of calendar months, the day of the month clamped to
\* the length of the month arrived at
ClampedCutoff(t, months) ==
    LET ym == t.y + ((t.m0 - months) \div 12)
        mn == (t.m0 - months) % 12
        dd == IF t.d > DaysInMonth(ym, mn) THEN DaysInMonth(ym, mn) ELSE t.d
    IN  MakeDay(ym, mn, dd)

\* C8: the window filter returns the series unmodified for ALL and otherwise
\* exactly the points at or after now minus 1, 6 or 12 calendar months, the
\* day of the month clamped when the target month does not have it.
C8_WindowFilter ==
    (result.op = "updateChart" /\ ~ result.raised) =>
        chartData =
            IF result.range = "ALL" THEN result.series
            ELSE SelectSeq(result.series,
                     LAMBDA p : p.x.valid /\ p.x.day >=
                         ClampedCutoff(now, MonthsOf(result.range)))

\* C11: after any sequence of metric selections and time-range toggles, once
\* every updateChart they started has completed, the chart shows the series
\* of manager.currentMetric filtered by manager.currentTimeRange (as of the
\* time of the last update): an earlier update never overwrites a later one.
C11_ChartSettles ==
    (pending = <<>> /\ result.op = "updateChart") =>
        \E got \in getMetricData(data, currentMetric) :
            /\ ~ got.raised
            /\ chartData = FilterRange(got.series, currentTimeRange, now)

\* all updates have completed after a selection and a toggle changed both the
\* metric and the time range the dashboard started with, and the chart is
\* not empty
C11_Witness ==
    /\ pending = <<>>
    /\ result.op = "updateChart"
    /\ currentMetric # "RestingHeartRate"
    /\ currentTimeRange # "1M"
    /\ chartData # <<>>

====
